---- MODULE Spec2Model ----
(***************************************************************************)
(* Model of src/mesh/mesh.c (BTstack mesh node core): persistence of       *)
(* network and application keys in the TLV tag store, and the node         *)
(* lifecycle handlers (HCI events, provisioning events).                   *)
(***************************************************************************)
EXTENDS Integers, Sequences, FiniteSets, TLC

VARIABLES
    tlv,               \* persistent tag store: tag -> record bytes (<<>> = no record)
    network_keys,      \* in-memory network key list (entries taken from the key pool)
    transport_keys,    \* in-memory application key list (entries taken from the key pool)
    subnets,           \* netkey_index values for which mesh_subnet_setup_for_netkey_index ran
    build,             \* compile-time capability flags of the build
    provisioned,       \* static int provisioned
    provisioning_device_packet_handler,   \* the subscriber of the node owner, or "NULL"
    provisioning_device_registered,       \* handler registered with the provisioning collaborator
    tlv_impl,          \* btstack_tlv_singleton_impl: "NULL" until resolved
    provisioning_data_tlv,   \* persisted provisioning record: << >> or << record >>
    advertising,       \* the advertisements and beacons that are running
    device_uuid,       \* mesh_node_get_device_uuid(): << >> (NULL) or << uuid >>
    crypto_random_pending,   \* a btstack_crypto_random_generate request is in flight
    node,              \* node identity set up from provisioning data
    forwarded,         \* the calls the bridge made to the subscriber when it last ran
    bridge_calls,      \* the calls and assignments the bridge made when it last ran
    init_calls,        \* the calls mesh_init has made since process start
    link_connected,    \* a connection to the node is up
    hci_state,         \* the state of the stack, as its last state event reported it
    fault              \* the process has faulted (NULL pointer dereference)

nodevars == << provisioned, provisioning_device_packet_handler,
               provisioning_device_registered, tlv_impl, provisioning_data_tlv,
               advertising, device_uuid, crypto_random_pending, node, forwarded,
               bridge_calls, init_calls, link_connected, hci_state, fault >>

vars == << tlv, network_keys, transport_keys, subnets, build, nodevars >>

----------------------------------------------------------------------------
(* Bounds of the model *)

\* configured number of network key slots / pool entries (btstack_config.h)
MAX_NR_MESH_NETWORK_KEYS == 2
\* configured number of application key slots / pool entries (btstack_config.h)
MAX_NR_MESH_TRANSPORT_KEYS == 2

----------------------------------------------------------------------------
(* Program constants *)

KEY_LEN == 16
NETWORK_ID_LEN == 8
CHAR_M == 77
CHAR_N == 78
CHAR_A == 65

\* sizeof(mesh_persistent_net_key_t): uint16, uint8, 3 x 16 bytes, 8 bytes, uint8, 2 x 16 bytes
SIZEOF_mesh_persistent_net_key_t == 2 + 1 + KEY_LEN + KEY_LEN + KEY_LEN + NETWORK_ID_LEN + 1 + KEY_LEN + KEY_LEN
\* sizeof(mesh_persistent_app_key_t): 2 x uint16, 2 x uint8, 16 bytes
SIZEOF_mesh_persistent_app_key_t == 2 + 2 + 1 + 1 + KEY_LEN

----------------------------------------------------------------------------
(* Integer helpers (C operators on unsigned values) *)

RECURSIVE BitOr(_, _)
BitOr(a, b) ==
    IF a = 0 THEN b
    ELSE IF b = 0 THEN a
    ELSE (IF a % 2 = 1 \/ b % 2 = 1 THEN 1 ELSE 0) + 2 * BitOr(a \div 2, b \div 2)

\* (uint32_t) a << n, for operands whose result stays below 2^31
ShiftLeft(a, n) == a * (2 ^ n)

\* conversion of an argument to uint16_t
U16(v) == v % 65536

\* the two bytes of a uint16_t struct member, as laid out in memory (little endian)
U16Bytes(v) == << v % 256, (v \div 256) % 256 >>
U16FromBytes(lo, hi) == lo + 256 * hi

----------------------------------------------------------------------------
(* Tag addressing *)

\* mutant: the network key tag built with the application key type bytes
mesh_network_key_tag_wrong_type(internal_index) ==
    BitOr(BitOr(ShiftLeft(CHAR_M, 24), ShiftLeft(CHAR_A, 16)), U16(internal_index))

mesh_network_key_tag_for_internal_index(internal_index) ==
    BitOr(BitOr(ShiftLeft(CHAR_M, 24), ShiftLeft(CHAR_N, 16)), U16(internal_index))

mesh_transport_key_tag_for_internal_index(internal_index) ==
    BitOr(BitOr(ShiftLeft(CHAR_M, 24), ShiftLeft(CHAR_A, 16)), U16(internal_index))

NetworkKeySlots == 0 .. (MAX_NR_MESH_NETWORK_KEYS - 1)
TransportKeySlots == 0 .. (MAX_NR_MESH_TRANSPORT_KEYS - 1)

NetworkKeyTags == { mesh_network_key_tag_for_internal_index(i) : i \in NetworkKeySlots }
TransportKeyTags == { mesh_transport_key_tag_for_internal_index(i) : i \in TransportKeySlots }
TlvTags == NetworkKeyTags \cup TransportKeyTags

----------------------------------------------------------------------------
(* Persistent tag store (btstack_tlv_t): store_tag / get_tag / delete_tag *)

\* store_tag: writes the record, replacing any record of the tag
store_tag(store, tag, data) == [store EXCEPT ![tag] = data]

\* delete_tag: removes the record of the tag, if any
delete_tag(store, tag) == [store EXCEPT ![tag] = << >>]

\* get_tag: the length of the record (0 = absent)
get_tag_len(store, tag) == Len(store[tag])

\* get_tag: the caller's buffer afterwards; bytes the record does not cover keep
\* what the buffer held before (fill)
get_tag_buffer(store, tag, buffer_size, fill) ==
    LET record == store[tag]
        copied == IF Len(record) <= buffer_size THEN Len(record) ELSE buffer_size
    IN  SubSeq(record, 1, copied) \o [j \in 1 .. (buffer_size - copied) |-> fill]

----------------------------------------------------------------------------
(* Key Record Codec: mesh_persistent_net_key_t / mesh_persistent_app_key_t *)

\* mutant: data.version is never assigned, the record carries a stale byte
mesh_persistent_net_key_t_bytes_no_version(network_key) ==
    U16Bytes(network_key.netkey_index)
        \o << 0 >>
        \o network_key.net_key
        \o network_key.identity_key
        \o network_key.beacon_key
        \o network_key.network_id
        \o << network_key.nid >>
        \o network_key.encryption_key
        \o network_key.privacy_key

\* the bytes of the mesh_persistent_net_key_t filled in by mesh_store_network_key
mesh_persistent_net_key_t_bytes(network_key) ==
    U16Bytes(network_key.netkey_index)
        \o << network_key.version >>
        \o network_key.net_key
        \o network_key.identity_key
        \o network_key.beacon_key
        \o network_key.network_id
        \o << network_key.nid >>
        \o network_key.encryption_key
        \o network_key.privacy_key

\* the members of a mesh_persistent_net_key_t read back from a buffer
mesh_persistent_net_key_t_fields(data) ==
    [ netkey_index   |-> U16FromBytes(data[1], data[2]),
      version        |-> data[3],
      net_key        |-> SubSeq(data, 4, 3 + KEY_LEN),
      identity_key   |-> SubSeq(data, 4 + KEY_LEN, 3 + 2 * KEY_LEN),
      beacon_key     |-> SubSeq(data, 4 + 2 * KEY_LEN, 3 + 3 * KEY_LEN),
      network_id     |-> SubSeq(data, 4 + 3 * KEY_LEN, 3 + 3 * KEY_LEN + NETWORK_ID_LEN),
      nid            |-> data[4 + 3 * KEY_LEN + NETWORK_ID_LEN],
      encryption_key |-> SubSeq(data, 5 + 3 * KEY_LEN + NETWORK_ID_LEN, 4 + 4 * KEY_LEN + NETWORK_ID_LEN),
      privacy_key    |-> SubSeq(data, 5 + 4 * KEY_LEN + NETWORK_ID_LEN, 4 + 5 * KEY_LEN + NETWORK_ID_LEN) ]

\* the bytes of the mesh_persistent_app_key_t filled in by mesh_store_app_key
mesh_persistent_app_key_t_bytes(app_key) ==
    U16Bytes(app_key.netkey_index)
        \o U16Bytes(app_key.appkey_index)
        \o << app_key.aid >>
        \o << app_key.version >>
        \o app_key.key

\* the members of a mesh_persistent_app_key_t read back from a buffer
mesh_persistent_app_key_t_fields(data) ==
    [ netkey_index |-> U16FromBytes(data[1], data[2]),
      appkey_index |-> U16FromBytes(data[3], data[4]),
      aid          |-> data[5],
      version      |-> data[6],
      key          |-> SubSeq(data, 7, 6 + KEY_LEN) ]

----------------------------------------------------------------------------
(* Key pools (btstack_memory) *)

ZeroBytes(n) == [j \in 1 .. n |-> 0]

\* mutant: the pool hands out one entry less than it has
btstack_memory_mesh_network_key_available_one_less(keys) ==
    Len(keys) < MAX_NR_MESH_NETWORK_KEYS - 1

\* btstack_memory_mesh_network_key_get: a zeroed pool entry, or NULL when the pool
\* of MAX_NR_MESH_NETWORK_KEYS entries is used up
btstack_memory_mesh_network_key_available(keys) == Len(keys) < MAX_NR_MESH_NETWORK_KEYS

btstack_memory_mesh_network_key_get ==
    [ internal_index |-> 0,
      netkey_index   |-> 0,
      version        |-> 0,
      net_key        |-> ZeroBytes(KEY_LEN),
      identity_key   |-> ZeroBytes(KEY_LEN),
      beacon_key     |-> ZeroBytes(KEY_LEN),
      network_id     |-> ZeroBytes(NETWORK_ID_LEN),
      nid            |-> 0,
      encryption_key |-> ZeroBytes(KEY_LEN),
      privacy_key    |-> ZeroBytes(KEY_LEN),
      advertisement_with_network_id |-> << >> ]

\* btstack_memory_mesh_transport_key_get
btstack_memory_mesh_transport_key_available(keys) == Len(keys) < MAX_NR_MESH_TRANSPORT_KEYS

btstack_memory_mesh_transport_key_get ==
    [ internal_index |-> 0,
      appkey_index   |-> 0,
      netkey_index   |-> 0,
      aid            |-> 0,
      akf            |-> 0,
      version        |-> 0,
      key            |-> ZeroBytes(KEY_LEN) ]

\* what an uninitialised stack buffer may hold
StackResidue == {0, 255}

----------------------------------------------------------------------------
(* Keys held by the node: the key the node keeps at each internal index *)

Pattern(base, len) == [j \in 1 .. len |-> (base + j - 1) % 256]

\* the network key at internal index i (slot 0: NetKey Index 0x0012, key 00..0F)
MeshNetworkKey(i) ==
    [ internal_index |-> i,
      netkey_index   |-> 18 + 256 * i,
      version        |-> (i + 1) % 2,
      net_key        |-> Pattern(16 * i, KEY_LEN),
      identity_key   |-> Pattern(16 * i + 32, KEY_LEN),
      beacon_key     |-> Pattern(16 * i + 64, KEY_LEN),
      network_id     |-> Pattern(16 * i + 96, NETWORK_ID_LEN),
      nid            |-> 17 + i,
      encryption_key |-> Pattern(16 * i + 128, KEY_LEN),
      privacy_key    |-> Pattern(16 * i + 160, KEY_LEN),
      advertisement_with_network_id |-> << >> ]

\* the application key at internal index i
MeshTransportKey(i) ==
    [ internal_index |-> i,
      appkey_index   |-> 291 + 256 * i,
      netkey_index   |-> 18 + 256 * i,
      aid            |-> 33 + i,
      akf            |-> 1,
      version        |-> (i + 1) % 2,
      key            |-> Pattern(16 * i + 192, KEY_LEN) ]

NetworkKeyPersistedFields ==
    { "netkey_index", "version", "net_key", "identity_key", "beacon_key",
      "network_id", "nid", "encryption_key", "privacy_key" }
TransportKeyPersistedFields ==
    { "netkey_index", "appkey_index", "aid", "version", "key" }

SameNetworkKeyFields(a, b) == \A f \in NetworkKeyPersistedFields : a[f] = b[f]
SameTransportKeyFields(a, b) == \A f \in TransportKeyPersistedFields : a[f] = b[f]

----------------------------------------------------------------------------
(* Mesh Network Keys *)

\* the store after mesh_store_network_key(network_key)
mesh_store_network_key_tlv(store, network_key) ==
    LET tag == mesh_network_key_tag_for_internal_index(network_key.internal_index)
    IN  store_tag(store, tag, mesh_persistent_net_key_t_bytes(network_key))

mesh_store_network_key(network_key) ==
    /\ tlv' = mesh_store_network_key_tlv(tlv, network_key)
    /\ UNCHANGED << network_keys, transport_keys, subnets, build, nodevars >>

\* mutant: the delete ignores its argument and removes the record of slot 0
mesh_delete_network_key_tlv_slot0(store, internal_index) ==
    delete_tag(store, mesh_network_key_tag_for_internal_index(0))

\* the store after mesh_delete_network_key(internal_index)
mesh_delete_network_key_tlv(store, internal_index) ==
    LET tag == mesh_network_key_tag_for_internal_index(internal_index)
    IN  delete_tag(store, tag)

mesh_delete_network_key(internal_index) ==
    /\ tlv' = mesh_delete_network_key_tlv(tlv, internal_index)
    /\ UNCHANGED << network_keys, transport_keys, subnets, build, nodevars >>

\* one pass of the loop body of mesh_load_network_keys: the key built from the
\* record of the slot
mesh_load_network_key_entry(data) ==
    LET persisted == mesh_persistent_net_key_t_fields(data)
        network_key == btstack_memory_mesh_network_key_get
    IN  [ network_key EXCEPT
            !.netkey_index   = persisted.netkey_index,
            !.net_key        = persisted.net_key,
            !.identity_key   = persisted.identity_key,
            !.beacon_key     = persisted.beacon_key,
            !.network_id     = persisted.network_id,
            !.nid            = persisted.nid,
            !.version        = persisted.version,
            !.encryption_key = persisted.encryption_key,
            !.privacy_key    = persisted.privacy_key,
            !.advertisement_with_network_id =
                IF build.ENABLE_GATT_BEARER THEN persisted.network_id ELSE << >> ]

\* mutant: only an absent record is skipped (the test mesh_load_app_keys makes)
mesh_load_network_key_accepts_nonzero(netkey_len) ==
    netkey_len # 0

\* whether the loop of mesh_load_network_keys takes the record of a slot
mesh_load_network_key_accepts(netkey_len) ==
    netkey_len = SIZEOF_mesh_persistent_net_key_t

\* the key list after the loop of mesh_load_network_keys has run from internal_index
RECURSIVE mesh_load_network_keys_from(_, _, _, _)
mesh_load_network_keys_from(internal_index, store, keys, fill) ==
    IF internal_index >= MAX_NR_MESH_NETWORK_KEYS THEN keys
    ELSE
        LET tag == mesh_network_key_tag_for_internal_index(internal_index)
            netkey_len == get_tag_len(store, tag)
            data == get_tag_buffer(store, tag, SIZEOF_mesh_persistent_net_key_t, fill)
        IN  IF ~ mesh_load_network_key_accepts(netkey_len)
            THEN mesh_load_network_keys_from(internal_index + 1, store, keys, fill)
            ELSE IF ~ btstack_memory_mesh_network_key_available(keys)
            THEN keys
            ELSE mesh_load_network_keys_from(internal_index + 1, store,
                     Append(keys, mesh_load_network_key_entry(data)), fill)

\* the keys a load added to the list
AddedKeys(before, after) == SubSeq(after, Len(before) + 1, Len(after))

mesh_load_network_keys(fill) ==
    LET loaded == mesh_load_network_keys_from(0, tlv, network_keys, fill)
        added == AddedKeys(network_keys, loaded)
    IN  /\ network_keys' = loaded
        /\ subnets' = subnets \cup { added[j].netkey_index : j \in 1 .. Len(added) }
        /\ UNCHANGED << tlv, transport_keys, build, nodevars >>

\* the store after the loop of mesh_delete_network_keys has run from internal_index
RECURSIVE mesh_delete_network_keys_from(_, _)
mesh_delete_network_keys_from(internal_index, store) ==
    IF internal_index >= MAX_NR_MESH_NETWORK_KEYS THEN store
    ELSE mesh_delete_network_keys_from(internal_index + 1,
             mesh_delete_network_key_tlv(store, internal_index))

mesh_delete_network_keys ==
    /\ tlv' = mesh_delete_network_keys_from(0, tlv)
    /\ UNCHANGED << network_keys, transport_keys, subnets, build, nodevars >>

----------------------------------------------------------------------------
(* Mesh App Keys *)

\* the store after mesh_store_app_key(app_key)
mesh_store_app_key_tlv(store, app_key) ==
    LET tag == mesh_transport_key_tag_for_internal_index(app_key.internal_index)
    IN  store_tag(store, tag, mesh_persistent_app_key_t_bytes(app_key))

mesh_store_app_key(app_key) ==
    /\ tlv' = mesh_store_app_key_tlv(tlv, app_key)
    /\ UNCHANGED << network_keys, transport_keys, subnets, build, nodevars >>

\* the store after mesh_delete_app_key(internal_index)
mesh_delete_app_key_tlv(store, internal_index) ==
    LET tag == mesh_transport_key_tag_for_internal_index(internal_index)
    IN  delete_tag(store, tag)

mesh_delete_app_key(internal_index) ==
    /\ tlv' = mesh_delete_app_key_tlv(tlv, internal_index)
    /\ UNCHANGED << network_keys, transport_keys, subnets, build, nodevars >>

\* one pass of the loop body of mesh_load_app_keys: the key built from the record
\* of the slot
mesh_load_app_key_entry(internal_index, data) ==
    LET persisted == mesh_persistent_app_key_t_fields(data)
        key == btstack_memory_mesh_transport_key_get
    IN  [ key EXCEPT
            !.internal_index = internal_index,
            !.appkey_index   = persisted.appkey_index,
            !.netkey_index   = persisted.netkey_index,
            !.aid            = persisted.aid,
            !.akf            = 1,
            !.version        = persisted.version,
            !.key            = persisted.key ]

\* whether the loop of mesh_load_app_keys takes the record of a slot
mesh_load_app_key_accepts(app_key_len) ==
    app_key_len # 0

\* the key list after the loop of mesh_load_app_keys has run from internal_index
RECURSIVE mesh_load_app_keys_from(_, _, _, _)
mesh_load_app_keys_from(internal_index, store, keys, fill) ==
    IF internal_index >= MAX_NR_MESH_TRANSPORT_KEYS THEN keys
    ELSE
        LET tag == mesh_transport_key_tag_for_internal_index(internal_index)
            app_key_len == get_tag_len(store, tag)
            data == get_tag_buffer(store, tag, SIZEOF_mesh_persistent_app_key_t, fill)
        IN  IF ~ mesh_load_app_key_accepts(app_key_len)
            THEN mesh_load_app_keys_from(internal_index + 1, store, keys, fill)
            ELSE IF ~ btstack_memory_mesh_transport_key_available(keys)
            THEN keys
            ELSE mesh_load_app_keys_from(internal_index + 1, store,
                     Append(keys, mesh_load_app_key_entry(internal_index, data)), fill)

mesh_load_app_keys(fill) ==
    /\ transport_keys' = mesh_load_app_keys_from(0, tlv, transport_keys, fill)
    /\ UNCHANGED << tlv, network_keys, subnets, build, nodevars >>

\* mutant: the loop stops one slot early
RECURSIVE mesh_delete_app_keys_from_short(_, _)
mesh_delete_app_keys_from_short(internal_index, store) ==
    IF internal_index >= MAX_NR_MESH_TRANSPORT_KEYS - 1 THEN store
    ELSE mesh_delete_app_keys_from_short(internal_index + 1,
             mesh_delete_app_key_tlv(store, internal_index))

\* the store after the loop of mesh_delete_app_keys has run from internal_index
RECURSIVE mesh_delete_app_keys_from(_, _)
mesh_delete_app_keys_from(internal_index, store) ==
    IF internal_index >= MAX_NR_MESH_TRANSPORT_KEYS THEN store
    ELSE mesh_delete_app_keys_from(internal_index + 1,
             mesh_delete_app_key_tlv(store, internal_index))

mesh_delete_app_keys ==
    /\ tlv' = mesh_delete_app_keys_from(0, tlv)
    /\ UNCHANGED << network_keys, transport_keys, subnets, build, nodevars >>

----------------------------------------------------------------------------
(* Environment of the key store *)

\* a persisted record loses its tail (interrupted write, worn flash)
TruncatedLengths(size) == { size - 1 }

CorruptNetworkKeyRecord(internal_index) ==
    LET tag == mesh_network_key_tag_for_internal_index(internal_index)
    IN  /\ Len(tlv[tag]) = SIZEOF_mesh_persistent_net_key_t
        /\ \E n \in TruncatedLengths(SIZEOF_mesh_persistent_net_key_t) :
               tlv' = [tlv EXCEPT ![tag] = SubSeq(tlv[tag], 1, n)]
        /\ UNCHANGED << network_keys, transport_keys, subnets, build, nodevars >>

CorruptAppKeyRecord(internal_index) ==
    LET tag == mesh_transport_key_tag_for_internal_index(internal_index)
    IN  /\ Len(tlv[tag]) = SIZEOF_mesh_persistent_app_key_t
        /\ \E n \in TruncatedLengths(SIZEOF_mesh_persistent_app_key_t) :
               tlv' = [tlv EXCEPT ![tag] = SubSeq(tlv[tag], 1, n)]
        /\ UNCHANGED << network_keys, transport_keys, subnets, build, nodevars >>

\* a fresh key repository (empty pools) backed by the same store
FreshRepository ==
    /\ network_keys' = << >>
    /\ transport_keys' = << >>
    /\ subnets' = {}
    /\ UNCHANGED << tlv, build, nodevars >>

----------------------------------------------------------------------------
(* Specification of the key store: the network key repository, with the        *)
(* application key records persisted alongside in the same store              *)

BuildsOfKeyStore ==
    { [ ENABLE_GATT_BEARER       |-> g,
        ENABLE_MESH_GATT_BEARER  |-> TRUE,
        ENABLE_MESH_ADV_BEARER   |-> TRUE,
        ENABLE_MESH_PROXY_SERVER |-> TRUE,
        ENABLE_MESH_PB_ADV       |-> TRUE,
        ENABLE_MESH_PB_GATT      |-> TRUE ] : g \in BOOLEAN }

UnsetNode ==
    [ iv_index_update_active |-> 0,
      iv_index               |-> 0,
      unicast_address        |-> 0,
      device_key             |-> ZeroBytes(KEY_LEN),
      proxy_address          |-> 0 ]

\* the statics of mesh.c and of its collaborators at process start
InitRam ==
    /\ network_keys = << >>
    /\ transport_keys = << >>
    /\ subnets = {}
    /\ provisioned = 0
    /\ provisioning_device_packet_handler = "NULL"
    /\ provisioning_device_registered = FALSE
    /\ advertising = {}
    /\ crypto_random_pending = FALSE
    /\ node = UnsetNode
    /\ forwarded = << >>
    /\ bridge_calls = << >>
    /\ init_calls = << >>
    /\ link_connected = FALSE
    /\ hci_state = "HCI_STATE_OFF"
    /\ fault = FALSE

\* the key store is exercised with the tag store resolved
InitKeys ==
    /\ InitRam
    /\ tlv = [tag \in TlvTags |-> << >>]
    /\ provisioning_data_tlv = << >>
    /\ tlv_impl = "btstack_tlv"
    /\ device_uuid = << >>
    /\ build \in BuildsOfKeyStore

NextKeys ==
    \/ \E i \in NetworkKeySlots : mesh_store_network_key(MeshNetworkKey(i))
    \/ \E i \in NetworkKeySlots : mesh_delete_network_key(i)
    \/ \E fill \in StackResidue : mesh_load_network_keys(fill)
    \/ mesh_delete_network_keys
    \/ \E i \in TransportKeySlots : mesh_store_app_key(MeshTransportKey(i))
    \/ \E i \in TransportKeySlots : mesh_delete_app_key(i)
    \/ mesh_delete_app_keys
    \/ \E i \in NetworkKeySlots : CorruptNetworkKeyRecord(i)
    \/ FreshRepository

SpecKeys == InitKeys /\ [][NextKeys]_vars

\* the application key repository, with application key records that lose
\* their tail
NextAppKeys ==
    \/ \E i \in TransportKeySlots : mesh_store_app_key(MeshTransportKey(i))
    \/ \E i \in TransportKeySlots : mesh_delete_app_key(i)
    \/ \E fill \in StackResidue : mesh_load_app_keys(fill)
    \/ mesh_delete_app_keys
    \/ \E i \in TransportKeySlots : CorruptAppKeyRecord(i)
    \/ FreshRepository

SpecAppKeys == InitKeys /\ [][NextAppKeys]_vars

----------------------------------------------------------------------------
(* Node set-up (mesh.c:122-177)                                               *)
(* The set-up functions act on the statics of mesh.c and of its collaborators;*)
(* they are written as functions of the record ram of those statics.          *)

Ram ==
    [ node                  |-> node,
      network_keys          |-> network_keys,
      transport_keys        |-> transport_keys,
      subnets               |-> subnets,
      advertising           |-> advertising,
      device_uuid           |-> device_uuid,
      crypto_random_pending |-> crypto_random_pending ]

\* the position of the first occurrence of call in calls, 0 if there is none
RECURSIVE IndexOf(_, _)
IndexOf(calls, call) ==
    IF calls = << >> THEN 0
    ELSE IF Head(calls) = call THEN 1
    ELSE LET i == IndexOf(Tail(calls), call)
         IN  IF i = 0 THEN 0 ELSE i + 1

Occurrences(calls, call) == Cardinality({ i \in DOMAIN calls : calls[i] = call })

\* call a is made exactly once, call b exactly once, and a before b
Precedes(calls, a, b) ==
    /\ Occurrences(calls, a) = 1
    /\ Occurrences(calls, b) = 1
    /\ IndexOf(calls, a) < IndexOf(calls, b)

\* mutant: the beacon is started before the key is added and the subnet set up
mesh_access_setup_from_provisioning_data_calls_beacon_first(provisioning_data) ==
    << "mesh_iv_index_recovered",
       "mesh_node_primary_element_address_set",
       "mesh_transport_set_device_key" >>
    \o ( IF provisioning_data.network_key # << >>
         THEN << "beacon_secure_network_start",
                 "mesh_network_key_add",
                 "mesh_subnet_setup_for_netkey_index" >>
         ELSE << >> )
    \o ( IF build.ENABLE_MESH_PROXY_SERVER
         THEN << "mesh_proxy_init",
                 "mesh_proxy_start_advertising_with_network_id" >>
         ELSE << >> )

\* the calls mesh_access_setup_from_provisioning_data makes, in the order of
\* its statements
mesh_access_setup_from_provisioning_data_calls(provisioning_data) ==
    << "mesh_iv_index_recovered",
       "mesh_node_primary_element_address_set",
       "mesh_transport_set_device_key" >>
    \o ( IF provisioning_data.network_key # << >>
         THEN << "mesh_network_key_add",
                 "mesh_subnet_setup_for_netkey_index",
                 "beacon_secure_network_start" >>
         ELSE << >> )
    \o ( IF build.ENABLE_MESH_PROXY_SERVER
         THEN << "mesh_proxy_init",
                 "mesh_proxy_start_advertising_with_network_id" >>
         ELSE << >> )

\* what one call of mesh_access_setup_from_provisioning_data does to the
\* statics; the beacon is started for the subnet mesh_subnet_get_by_netkey_index
\* finds, and for none if the subnet has not been set up
SetupCall(ram, call, provisioning_data) ==
    CASE call = "mesh_iv_index_recovered" ->
             [ram EXCEPT !.node.iv_index_update_active =
                             (provisioning_data.flags \div 2) % 2,
                         !.node.iv_index = provisioning_data.iv_index]
      [] call = "mesh_node_primary_element_address_set" ->
             [ram EXCEPT !.node.unicast_address = provisioning_data.unicast_address]
      [] call = "mesh_transport_set_device_key" ->
             [ram EXCEPT !.node.device_key = provisioning_data.device_key]
      [] call = "mesh_network_key_add" ->
             [ram EXCEPT !.network_keys = Append(@, provisioning_data.network_key[1])]
      [] call = "mesh_subnet_setup_for_netkey_index" ->
             [ram EXCEPT !.subnets =
                             @ \cup { provisioning_data.network_key[1].netkey_index }]
      [] call = "beacon_secure_network_start" ->
             IF provisioning_data.network_key[1].netkey_index \in ram.subnets
             THEN [ram EXCEPT !.advertising = @ \cup { "secure_network_beacon" }]
             ELSE ram
      [] call = "mesh_proxy_init" ->
             [ram EXCEPT !.node.proxy_address = provisioning_data.unicast_address]
      [] call = "mesh_proxy_start_advertising_with_network_id" ->
             [ram EXCEPT !.advertising = @ \cup { "advertising_with_network_id" }]

RECURSIVE SetupCalls(_, _, _)
SetupCalls(ram, calls, provisioning_data) ==
    IF calls = << >> THEN ram
    ELSE SetupCalls(SetupCall(ram, Head(calls), provisioning_data), Tail(calls),
                    provisioning_data)

\* mesh_access_setup_from_provisioning_data(provisioning_data)
mesh_access_setup_from_provisioning_data(ram, provisioning_data) ==
    SetupCalls(ram, mesh_access_setup_from_provisioning_data_calls(provisioning_data),
               provisioning_data)

\* beacon_unprovisioned_device_start(device_uuid, 0): the beacon carries the
\* UUID it is handed, which is << >> for NULL
beacon_unprovisioned_device_start(ram, uuid) ==
    [ram EXCEPT !.advertising =
         @ \cup { IF uuid = << >> THEN "unprovisioned_device_beacon(NULL)"
                  ELSE "unprovisioned_device_beacon" }]

\* mutant: the advertisements are started before the random UUID is set
mesh_access_setup_unprovisioned_device_uuid_last(ram, arg) ==
    LET r1 == IF build.ENABLE_MESH_PB_ADV
              THEN beacon_unprovisioned_device_start(ram, ram.device_uuid)
              ELSE ram
        r2 == IF build.ENABLE_MESH_PB_GATT
              THEN [r1 EXCEPT !.advertising = @ \cup { "advertising_unprovisioned_device" }]
              ELSE r1
    IN  IF arg = << >>
        THEN [r2 EXCEPT !.device_uuid = << "random_device_uuid" >>]
        ELSE r2

\* mesh_access_setup_unprovisioned_device(arg): arg is << >> for NULL
mesh_access_setup_unprovisioned_device(ram, arg) ==
    LET r1 == IF arg = << >>
              THEN [ram EXCEPT !.device_uuid = << "random_device_uuid" >>]
              ELSE ram
        r2 == IF build.ENABLE_MESH_PB_ADV
              THEN beacon_unprovisioned_device_start(r1, r1.device_uuid)
              ELSE r1
    IN  IF build.ENABLE_MESH_PB_GATT
        THEN [r2 EXCEPT !.advertising = @ \cup { "advertising_unprovisioned_device" }]
        ELSE r2

\* mesh_access_setup_without_provisiong_data()
mesh_access_setup_without_provisiong_data(ram) ==
    IF ram.device_uuid # << >>
    THEN mesh_access_setup_unprovisioned_device(ram, ram.device_uuid)
    ELSE [ram EXCEPT !.crypto_random_pending = TRUE]

\* the statics take the values of the record r
SetRam(r) ==
    /\ node' = r.node
    /\ network_keys' = r.network_keys
    /\ transport_keys' = r.transport_keys
    /\ subnets' = r.subnets
    /\ advertising' = r.advertising
    /\ device_uuid' = r.device_uuid
    /\ crypto_random_pending' = r.crypto_random_pending

\* the callback of the random generator: mesh_access_setup_unprovisioned_device(NULL)
mesh_access_crypto_random_done ==
    /\ ~ fault
    /\ crypto_random_pending
    /\ SetRam([mesh_access_setup_unprovisioned_device(Ram, << >>)
                   EXCEPT !.crypto_random_pending = FALSE])
    /\ UNCHANGED << tlv, build, provisioned, provisioning_device_packet_handler,
                    provisioning_device_registered, tlv_impl, provisioning_data_tlv,
                    forwarded, bridge_calls, init_calls, link_connected, hci_state, fault >>

----------------------------------------------------------------------------
(* Collaborators of mesh.c whose code is in mesh_node.c and provisioning      *)

\* the provisioning data provisioning_device_data_get hands out: the network
\* key is << >> (NULL) or << key >>
ProvisioningData(network_key) ==
    [ unicast_address |-> 1,
      flags           |-> 2,
      iv_index        |-> 1,
      device_key      |-> Pattern(224, KEY_LEN),
      network_key     |-> network_key ]

\* the provisioning collaborator takes the primary network key from the pool
ProvisioningDataSet(keys) ==
    { ProvisioningData(<< >>) } \cup
    ( IF btstack_memory_mesh_network_key_available(keys)
      THEN { ProvisioningData(<< MeshNetworkKey(0) >>) }
      ELSE {} )

\* mesh_node_store_provisioning_data: the provisioning record is persisted and
\* the primary network key is stored
mesh_node_store_provisioning_data_record(provisioning_data) ==
    << [provisioning_data EXCEPT !.network_key = << >>] >>

mesh_node_store_provisioning_data_tlv(store, provisioning_data) ==
    IF provisioning_data.network_key # << >>
    THEN mesh_store_network_key_tlv(store, provisioning_data.network_key[1])
    ELSE store

\* mesh_node_startup_from_tlv: with a persisted provisioning record the node is
\* set up from it and the keys are loaded, without one the node is set up as
\* an unprovisioned device; returns whether the record was there
mesh_node_startup_from_tlv_valid(record) == record # << >>

mesh_node_startup_from_tlv_ram(ram, store, record, fill) ==
    IF mesh_node_startup_from_tlv_valid(record)
    THEN LET r1 == mesh_access_setup_from_provisioning_data(ram, record[1])
             loaded == mesh_load_network_keys_from(0, store, r1.network_keys, fill)
             added == AddedKeys(r1.network_keys, loaded)
         IN  [r1 EXCEPT !.network_keys = loaded,
                        !.subnets = @ \cup { added[j].netkey_index : j \in 1 .. Len(added) },
                        !.transport_keys =
                            mesh_load_app_keys_from(0, store, @, fill)]
    ELSE mesh_access_setup_without_provisiong_data(ram)

\* node reset: the persisted node state and the keys of both kinds are deleted;
\* it is requested over the mesh network, that is while the stack works
mesh_node_reset ==
    /\ ~ fault
    /\ hci_state = "HCI_STATE_WORKING"
    /\ provisioning_data_tlv' = << >>
    /\ tlv' = mesh_delete_app_keys_from(0, mesh_delete_network_keys_from(0, tlv))
    /\ provisioned' = 0
    /\ UNCHANGED << network_keys, transport_keys, subnets, build,
                    provisioning_device_packet_handler,
                    provisioning_device_registered, tlv_impl, advertising,
                    device_uuid, crypto_random_pending, node, forwarded,
                    bridge_calls, init_calls, link_connected, hci_state, fault >>

----------------------------------------------------------------------------
(* Provisioning bridge (mesh.c:179-211)                                       *)

\* packets are sequences of symbolic bytes: packet[1] is the event code
\* (packet[0] in C), packet[3] the subevent code (packet[2] in C)
ProvisioningPackets ==
    { << "HCI_EVENT_MESH_META", "3", "MESH_SUBEVENT_PB_PROV_COMPLETE" >>,
      << "HCI_EVENT_MESH_META", "3", "MESH_SUBEVENT_PB_TRANSPORT_LINK_OPEN" >>,
      << "HCI_EVENT_VENDOR_SPECIFIC", "3", "MESH_SUBEVENT_PB_PROV_COMPLETE" >> }

ProvisioningChannels == { 0 }

\* the switch of mesh_provisioning_message_handler reaches the
\* provisioning-complete case
IsProvisioningComplete(packet) ==
    /\ packet[1] = "HCI_EVENT_MESH_META"
    /\ packet[3] = "MESH_SUBEVENT_PB_PROV_COMPLETE"

\* the outcomes of reading netkey_index through a NULL network_key (line 196):
\* the process faults, or the read yields a value that names no subnet
NullDereferenceOutcomes == { "fault", "garbage" }

\* lines 207-210: the call of the subscriber; the entry records the flag the
\* subscriber finds when it is called
forward(packet_type, channel, packet, size, flag) ==
    IF provisioning_device_packet_handler = "NULL"
    THEN forwarded' = << >>
    ELSE forwarded' = << [ packet_type |-> packet_type, channel |-> channel,
                           packet |-> packet, size |-> size, provisioned |-> flag ] >>

\* the same call, as an entry of the bridge's calls
forward_call ==
    IF provisioning_device_packet_handler = "NULL"
    THEN << >>
    ELSE << "provisioning_device_packet_handler" >>

\* lines 187-193: the calls of the provisioning-complete case up to the
\* evaluation of the arguments of line 196
provisioning_complete_calls(provisioning_data) ==
    << "provisioning_device_data_get", "mesh_node_store_provisioning_data" >>
    \o mesh_access_setup_from_provisioning_data_calls(provisioning_data)

mesh_provisioning_message_handler(packet_type, channel, packet, size) ==
    /\ ~ fault
    /\ IF IsProvisioningComplete(packet)
       THEN \E provisioning_data \in ProvisioningDataSet(network_keys) :
            LET r1 == mesh_access_setup_from_provisioning_data(Ram, provisioning_data)
            IN  /\ provisioning_data_tlv' =
                       mesh_node_store_provisioning_data_record(provisioning_data)
                /\ tlv' = mesh_node_store_provisioning_data_tlv(tlv, provisioning_data)
                /\ IF provisioning_data.network_key = << >>
                   THEN \E outcome \in NullDereferenceOutcomes :
                        IF outcome = "fault"
                        THEN /\ SetRam(r1)
                             /\ fault' = TRUE
                             /\ forwarded' = << >>
                             /\ bridge_calls' =
                                    provisioning_complete_calls(provisioning_data)
                             /\ UNCHANGED provisioned
                        ELSE /\ SetRam(r1)
                             /\ provisioned' = 1
                             /\ forward(packet_type, channel, packet, size, 1)
                             /\ bridge_calls' =
                                    provisioning_complete_calls(provisioning_data)
                                    \o << "mesh_proxy_set_advertising_with_node_id",
                                          "provisioned = 1" >>
                                    \o forward_call
                             /\ UNCHANGED fault
                   ELSE /\ SetRam([r1 EXCEPT !.advertising =
                                       @ \cup { "advertising_with_node_id" }])
                        /\ provisioned' = 1
                        /\ forward(packet_type, channel, packet, size, 1)
                        /\ bridge_calls' =
                               provisioning_complete_calls(provisioning_data)
                               \o << "mesh_proxy_set_advertising_with_node_id",
                                     "provisioned = 1" >>
                               \o forward_call
                        /\ UNCHANGED fault
       ELSE /\ forward(packet_type, channel, packet, size, provisioned)
            /\ bridge_calls' = forward_call
            /\ UNCHANGED << tlv, network_keys, transport_keys, subnets, provisioned,
                            provisioning_data_tlv, advertising, device_uuid,
                            crypto_random_pending, node, fault >>
    /\ UNCHANGED << build, provisioning_device_packet_handler,
                    provisioning_device_registered, tlv_impl, init_calls,
                    link_connected, hci_state >>

----------------------------------------------------------------------------
(* HCI events (mesh.c:213-250)                                                *)

HciPacketTypes == { "HCI_EVENT_PACKET", "HCI_ACL_DATA_PACKET" }

\* packet[1] is the event type, packet[2] the state of a BTSTACK_EVENT_STATE
\* or the subevent code of an HCI_EVENT_LE_META
HciPackets ==
    { << "BTSTACK_EVENT_STATE", "HCI_STATE_WORKING" >>,
      << "BTSTACK_EVENT_STATE", "HCI_STATE_INITIALIZING" >>,
      << "HCI_EVENT_DISCONNECTION_COMPLETE", "0" >>,
      << "HCI_EVENT_LE_META", "HCI_SUBEVENT_LE_CONNECTION_COMPLETE" >>,
      << "HCI_EVENT_LE_META", "HCI_SUBEVENT_LE_ADVERTISING_REPORT" >>,
      << "HCI_EVENT_COMMAND_COMPLETE", "0" >> }

hci_event_packet_get_type(packet) == packet[1]
btstack_event_state_get_state(packet) == packet[2]
hci_event_le_meta_get_subevent_code(packet) == packet[2]

\* mutant: the flag is cleared when the stack leaves the working state
hci_event_state_clears_flag(packet) ==
    IF btstack_event_state_get_state(packet) # "HCI_STATE_WORKING"
    THEN /\ provisioned' = 0
         /\ UNCHANGED << tlv_impl, node, network_keys, transport_keys, subnets,
                         advertising, device_uuid, crypto_random_pending >>
    ELSE /\ tlv_impl' = "btstack_tlv"
         /\ \E fill \in StackResidue :
                SetRam(mesh_node_startup_from_tlv_ram(Ram, tlv, provisioning_data_tlv, fill))
         /\ provisioned' =
                IF mesh_node_startup_from_tlv_valid(provisioning_data_tlv) THEN 1 ELSE 0

\* mutant: the state of the state event is not looked at
hci_event_state_any_state(packet) ==
    /\ tlv_impl' = "btstack_tlv"
    /\ \E fill \in StackResidue :
           SetRam(mesh_node_startup_from_tlv_ram(Ram, tlv, provisioning_data_tlv, fill))
    /\ provisioned' =
           IF mesh_node_startup_from_tlv_valid(provisioning_data_tlv) THEN 1 ELSE 0

\* case BTSTACK_EVENT_STATE
hci_event_state(packet) ==
    IF btstack_event_state_get_state(packet) # "HCI_STATE_WORKING"
    THEN UNCHANGED << tlv_impl, provisioned, node, network_keys, transport_keys,
                      subnets, advertising, device_uuid, crypto_random_pending >>
    ELSE /\ tlv_impl' = "btstack_tlv"
         /\ \E fill \in StackResidue :
                SetRam(mesh_node_startup_from_tlv_ram(Ram, tlv, provisioning_data_tlv, fill))
         /\ provisioned' =
                IF mesh_node_startup_from_tlv_valid(provisioning_data_tlv) THEN 1 ELSE 0

\* mutant: a provisioned node advertises as an unprovisioned device again
hci_event_disconnection_complete_unprovisioned ==
    /\ advertising' = advertising \cup { "advertising_unprovisioned_device" }
    /\ UNCHANGED << tlv_impl, provisioned, node, network_keys, transport_keys,
                    subnets, device_uuid, crypto_random_pending >>

\* case HCI_EVENT_DISCONNECTION_COMPLETE
hci_event_disconnection_complete ==
    /\ advertising' =
           IF provisioned = 0
           THEN advertising \cup { "advertising_unprovisioned_device" }
           ELSE IF build.ENABLE_MESH_PROXY_SERVER
                THEN advertising \cup { "advertising_with_network_id" }
                ELSE advertising
    /\ UNCHANGED << tlv_impl, provisioned, node, network_keys, transport_keys,
                    subnets, device_uuid, crypto_random_pending >>

\* mutant: the subevent code is not looked at
hci_event_le_meta_any_subevent(packet) ==
    /\ advertising' = advertising \ { "advertising_unprovisioned_device" }
    /\ UNCHANGED << tlv_impl, provisioned, node, network_keys, transport_keys,
                    subnets, device_uuid, crypto_random_pending >>

\* case HCI_EVENT_LE_META
hci_event_le_meta(packet) ==
    /\ advertising' =
           IF hci_event_le_meta_get_subevent_code(packet) # "HCI_SUBEVENT_LE_CONNECTION_COMPLETE"
           THEN advertising
           ELSE advertising \ { "advertising_unprovisioned_device" }
    /\ UNCHANGED << tlv_impl, provisioned, node, network_keys, transport_keys,
                    subnets, device_uuid, crypto_random_pending >>

hci_packet_handler(packet_type, packet) ==
    /\ ~ fault
    /\ IF packet_type # "HCI_EVENT_PACKET"
       THEN UNCHANGED << tlv_impl, provisioned, node, network_keys, transport_keys,
                         subnets, advertising, device_uuid, crypto_random_pending >>
       ELSE CASE hci_event_packet_get_type(packet) = "BTSTACK_EVENT_STATE" ->
                     hci_event_state(packet)
              [] hci_event_packet_get_type(packet) = "HCI_EVENT_DISCONNECTION_COMPLETE" ->
                     hci_event_disconnection_complete
              [] hci_event_packet_get_type(packet) = "HCI_EVENT_LE_META" ->
                     hci_event_le_meta(packet)
              [] OTHER ->
                     UNCHANGED << tlv_impl, provisioned, node, network_keys,
                                  transport_keys, subnets, advertising, device_uuid,
                                  crypto_random_pending >>
    /\ UNCHANGED << tlv, build, provisioning_device_packet_handler,
                    provisioning_device_registered, provisioning_data_tlv,
                    forwarded, bridge_calls, init_calls, fault >>

----------------------------------------------------------------------------
(* Registration (mesh.c:437-440)                                              *)

\* mutant: the upper transport is initialised before the lower transport
mesh_init_calls_upper_first ==
    << "hci_add_event_handler", "adv_bearer_init" >>
    \o ( IF build.ENABLE_MESH_GATT_BEARER THEN << "gatt_bearer_init" >> ELSE << >> )
    \o ( IF build.ENABLE_MESH_ADV_BEARER THEN << "beacon_init" >> ELSE << >> )
    \o << "provisioning_device_init", "mesh_node_init", "mesh_network_init",
          "mesh_upper_transport_init", "mesh_lower_transport_init",
          "mesh_access_init",
          "mesh_element_add_model(mesh_configuration_server_model)",
          "mesh_element_add_model(mesh_health_server_model)" >>

\* mesh_node_setup_default_models (mesh.c:384-394)
mesh_node_setup_default_models_calls ==
    << "mesh_element_add_model(mesh_configuration_server_model)",
       "mesh_element_add_model(mesh_health_server_model)" >>

\* the calls of mesh_init in the order of its statements (mesh.c:396-431)
mesh_init_calls ==
    << "hci_add_event_handler", "adv_bearer_init" >>
    \o ( IF build.ENABLE_MESH_GATT_BEARER THEN << "gatt_bearer_init" >> ELSE << >> )
    \o ( IF build.ENABLE_MESH_ADV_BEARER THEN << "beacon_init" >> ELSE << >> )
    \o << "provisioning_device_init", "mesh_node_init", "mesh_network_init",
          "mesh_lower_transport_init", "mesh_upper_transport_init",
          "mesh_access_init" >>
    \o mesh_node_setup_default_models_calls

\* mesh_init, called by the application once at process start
mesh_init ==
    /\ init_calls = << >>
    /\ init_calls' = mesh_init_calls
    /\ UNCHANGED << tlv, network_keys, transport_keys, subnets, build, provisioned,
                    provisioning_device_packet_handler,
                    provisioning_device_registered, tlv_impl, provisioning_data_tlv,
                    advertising, device_uuid, crypto_random_pending, node, forwarded,
                    bridge_calls, link_connected, hci_state, fault >>

PacketHandlers == { "NULL", "subscriber" }

mesh_register_provisioning_device_packet_handler(packet_handler) ==
    /\ ~ fault
    /\ provisioning_device_packet_handler' = packet_handler
    /\ provisioning_device_registered' = TRUE
    /\ forwarded' = << >>
    /\ bridge_calls' = << >>
    /\ UNCHANGED << tlv, network_keys, transport_keys, subnets, build, provisioned,
                    tlv_impl, provisioning_data_tlv, advertising, device_uuid,
                    crypto_random_pending, node, init_calls, link_connected, hci_state,
                    fault >>

----------------------------------------------------------------------------
(* Specification of the node lifecycle *)

\* the proxy server and PB-GATT vary with both bearers of mesh_init built in,
\* and the bearers of mesh_init vary in the build with every capability
BuildsOfNode ==
    { [ ENABLE_GATT_BEARER       |-> TRUE,
        ENABLE_MESH_GATT_BEARER  |-> gb,
        ENABLE_MESH_ADV_BEARER   |-> ab,
        ENABLE_MESH_PROXY_SERVER |-> p,
        ENABLE_MESH_PB_ADV       |-> TRUE,
        ENABLE_MESH_PB_GATT      |-> g ] :
          p \in BOOLEAN, g \in BOOLEAN, gb \in BOOLEAN, ab \in BOOLEAN }
    \ { b \in [ ENABLE_GATT_BEARER : { TRUE }, ENABLE_MESH_GATT_BEARER : BOOLEAN,
                 ENABLE_MESH_ADV_BEARER : BOOLEAN,
                 ENABLE_MESH_PROXY_SERVER : BOOLEAN, ENABLE_MESH_PB_ADV : { TRUE },
                 ENABLE_MESH_PB_GATT : BOOLEAN ] :
            /\ ~ (b.ENABLE_MESH_GATT_BEARER /\ b.ENABLE_MESH_ADV_BEARER)
            /\ ~ (b.ENABLE_MESH_PROXY_SERVER /\ b.ENABLE_MESH_PB_GATT) }

\* the device UUID the application configured before bring-up, if any
DeviceUuids == { << >>, << "configured_device_uuid" >> }

InitNode ==
    /\ InitRam
    /\ tlv = [tag \in TlvTags |-> << >>]
    /\ provisioning_data_tlv = << >>
    /\ tlv_impl = "NULL"
    /\ device_uuid \in DeviceUuids
    /\ build \in BuildsOfNode

\* the provisioning collaborator delivers an event to the handler registered
\* with it; provisioning runs over the radio, that is once the stack works
ProvisioningEvent ==
    /\ provisioning_device_registered
    /\ hci_state = "HCI_STATE_WORKING"
    /\ \E packet \in ProvisioningPackets, channel \in ProvisioningChannels :
            mesh_provisioning_message_handler("HCI_EVENT_PACKET", channel, packet,
                Len(packet))

\* the controller reports events to the handler mesh_init registered, and
\* events of the one link to the node: a disconnection while the link is up, a
\* connection while it is down and the stack works
IsDisconnection(packet_type, packet) ==
    /\ packet_type = "HCI_EVENT_PACKET"
    /\ packet = << "HCI_EVENT_DISCONNECTION_COMPLETE", "0" >>
IsConnection(packet_type, packet) ==
    /\ packet_type = "HCI_EVENT_PACKET"
    /\ packet = << "HCI_EVENT_LE_META", "HCI_SUBEVENT_LE_CONNECTION_COMPLETE" >>

\* a state event reports a change of the state of the stack
IsStateEvent(packet_type, packet) ==
    /\ packet_type = "HCI_EVENT_PACKET"
    /\ packet[1] = "BTSTACK_EVENT_STATE"

HciEvent ==
    \E packet_type \in HciPacketTypes, packet \in HciPackets :
        /\ IndexOf(init_calls, "hci_add_event_handler") > 0
        /\ IsDisconnection(packet_type, packet) => link_connected
        /\ IsConnection(packet_type, packet)
               => ( ~ link_connected /\ hci_state = "HCI_STATE_WORKING" )
        /\ IsStateEvent(packet_type, packet) => packet[2] # hci_state
        /\ hci_packet_handler(packet_type, packet)
        /\ hci_state' = IF IsStateEvent(packet_type, packet) THEN packet[2]
                        ELSE hci_state
        /\ link_connected' =
               IF IsDisconnection(packet_type, packet) THEN FALSE
               ELSE IF IsConnection(packet_type, packet) THEN TRUE
               ELSE link_connected

\* the device restarts: the statics are gone, the store stays
PowerCycle ==
    /\ network_keys' = << >>
    /\ transport_keys' = << >>
    /\ subnets' = {}
    /\ provisioned' = 0
    /\ provisioning_device_packet_handler' = "NULL"
    /\ provisioning_device_registered' = FALSE
    /\ tlv_impl' = "NULL"
    /\ advertising' = {}
    /\ device_uuid' \in DeviceUuids
    /\ crypto_random_pending' = FALSE
    /\ node' = UnsetNode
    /\ forwarded' = << >>
    /\ bridge_calls' = << >>
    /\ init_calls' = << >>
    /\ link_connected' = FALSE
    /\ hci_state' = "HCI_STATE_OFF"
    /\ fault' = FALSE
    /\ UNCHANGED << tlv, provisioning_data_tlv, build >>

NextNode ==
    \/ mesh_init
    \/ \E packet_handler \in PacketHandlers :
           mesh_register_provisioning_device_packet_handler(packet_handler)
    \/ ProvisioningEvent
    \/ HciEvent
    \/ mesh_access_crypto_random_done
    \/ mesh_node_reset
    \/ PowerCycle

SpecNode == InitNode /\ [][NextNode]_vars

----------------------------------------------------------------------------
(* Properties of the key store *)

NetworkKeyRecordWellFormed(store, i) ==
    Len(store[mesh_network_key_tag_for_internal_index(i)]) = SIZEOF_mesh_persistent_net_key_t
NetworkKeyRecordTruncated(store, i) ==
    /\ Len(store[mesh_network_key_tag_for_internal_index(i)]) > 0
    /\ Len(store[mesh_network_key_tag_for_internal_index(i)]) < SIZEOF_mesh_persistent_net_key_t
AppKeyRecordWellFormed(store, i) ==
    Len(store[mesh_transport_key_tag_for_internal_index(i)]) = SIZEOF_mesh_persistent_app_key_t
AppKeyRecordTruncated(store, i) ==
    /\ Len(store[mesh_transport_key_tag_for_internal_index(i)]) > 0
    /\ Len(store[mesh_transport_key_tag_for_internal_index(i)]) < SIZEOF_mesh_persistent_app_key_t

HoldsNetworkKey(keys, k) == \E j \in 1 .. Len(keys) : SameNetworkKeyFields(keys[j], k)
HoldsTransportKey(keys, k) == \E j \in 1 .. Len(keys) : SameTransportKeyFields(keys[j], k)

\* C1: round trip through the store. Whatever the store holds, storing a network
\* key (an application key) and then loading from the resulting store into an
\* empty pool yields a key whose persisted fields all equal those of the stored key.
C1_RoundTrip ==
    /\ \A i \in NetworkKeySlots : \A fill \in StackResidue :
           HoldsNetworkKey(
               mesh_load_network_keys_from(0,
                   mesh_store_network_key_tlv(tlv, MeshNetworkKey(i)), << >>, fill),
               MeshNetworkKey(i))
    /\ \A i \in TransportKeySlots : \A fill \in StackResidue :
           HoldsTransportKey(
               mesh_load_app_keys_from(0,
                   mesh_store_app_key_tlv(tlv, MeshTransportKey(i)), << >>, fill),
               MeshTransportKey(i))

\* C1 witness: the pool holds a network key that was stored and loaded back, field
\* for field, and the store holds an application key record that loads back
C1_Witness ==
    /\ HoldsNetworkKey(network_keys, MeshNetworkKey(1))
    /\ AppKeyRecordWellFormed(tlv, 1)
    /\ HoldsTransportKey(mesh_load_app_keys_from(0, tlv, << >>, 0), MeshTransportKey(1))

\* C2: after a network key held at internal index i is stored, loading into a fresh
\* repository yields a key with the stored netkey_index and net_key whose internal
\* index is i.
C2_LoadedInternalIndex ==
    [][ \A i \in NetworkKeySlots :
            mesh_store_network_key(MeshNetworkKey(i)) =>
                \A fill \in StackResidue :
                    LET loaded == mesh_load_network_keys_from(0, tlv', << >>, fill)
                    IN  \E j \in 1 .. Len(loaded) :
                            /\ loaded[j].netkey_index = MeshNetworkKey(i).netkey_index
                            /\ loaded[j].net_key = MeshNetworkKey(i).net_key
                            /\ loaded[j].internal_index = i
      ]_vars

KeyKinds == { "network key", "application key" }
SlotsOfKind(kind) == IF kind = "network key" THEN NetworkKeySlots ELSE TransportKeySlots
TagOfKind(kind, i) ==
    IF kind = "network key" THEN mesh_network_key_tag_for_internal_index(i)
    ELSE mesh_transport_key_tag_for_internal_index(i)

\* C3: tag disjointness. Two different (kind, internal index) pairs within the
\* configured maxima never produce the same tag, so the store keeps one record per
\* pair.
C3_TagDisjoint ==
    /\ \A k1 \in KeyKinds, k2 \in KeyKinds :
           \A i1 \in SlotsOfKind(k1), i2 \in SlotsOfKind(k2) :
               TagOfKind(k1, i1) = TagOfKind(k2, i2) => (k1 = k2 /\ i1 = i2)
    /\ Cardinality(DOMAIN tlv) = MAX_NR_MESH_NETWORK_KEYS + MAX_NR_MESH_TRANSPORT_KEYS

\* C3 witness: a network key record and an application key record persisted at the
\* same internal index, side by side
C3_Witness ==
    /\ NetworkKeyRecordWellFormed(tlv, 1)
    /\ AppKeyRecordWellFormed(tlv, 1)
    /\ tlv[mesh_network_key_tag_for_internal_index(1)]
           # tlv[mesh_transport_key_tag_for_internal_index(1)]

\* C4: idempotent delete. Deleting an internal index that has no persisted record
\* changes neither the store nor the key pools, and deleting an index a second
\* time leaves the state the first delete produced.
C4_IdempotentDelete ==
    [][ /\ \A i \in NetworkKeySlots :
              mesh_delete_network_key(i) =>
                  /\ (tlv[mesh_network_key_tag_for_internal_index(i)] = << >>
                          => UNCHANGED vars)
                  /\ mesh_delete_network_key_tlv(tlv', i) = tlv'
                  /\ UNCHANGED << network_keys, transport_keys, subnets >>
        /\ \A i \in TransportKeySlots :
              mesh_delete_app_key(i) =>
                  /\ (tlv[mesh_transport_key_tag_for_internal_index(i)] = << >>
                          => UNCHANGED vars)
                  /\ mesh_delete_app_key_tlv(tlv', i) = tlv'
                  /\ UNCHANGED << network_keys, transport_keys, subnets >>
      ]_vars

\* C4 witness: the key of slot 0 was loaded from a record that has since been
\* deleted, while the records of slot 1 are still persisted
C4_Witness ==
    /\ HoldsNetworkKey(network_keys, MeshNetworkKey(0))
    /\ tlv[mesh_network_key_tag_for_internal_index(0)] = << >>
    /\ tlv[mesh_transport_key_tag_for_internal_index(0)] = << >>
    /\ NetworkKeyRecordWellFormed(tlv, 1)
    /\ AppKeyRecordWellFormed(tlv, 1)

WellFormedNetworkKeySlots(store) ==
    { i \in NetworkKeySlots : NetworkKeyRecordWellFormed(store, i) }

\* C5: load skip on corruption, network keys. A load into an empty pool adds
\* exactly the keys of the well-formed records: a truncated record adds no key and
\* the well-formed records at the other slots are all loaded.
C5_LoadSkipsTruncatedNetKey ==
    [][ \A fill \in StackResidue :
            (mesh_load_network_keys(fill) /\ network_keys = << >>) =>
                /\ \A i \in NetworkKeySlots :
                       HoldsNetworkKey(network_keys', MeshNetworkKey(i))
                           <=> NetworkKeyRecordWellFormed(tlv, i)
                /\ Len(network_keys') = Cardinality(WellFormedNetworkKeySlots(tlv))
      ]_vars

\* C5 witness: the record of slot 0 is truncated and the only key in the pool is
\* the key of slot 1, loaded past the truncated record
C5_Witness ==
    /\ NetworkKeyRecordTruncated(tlv, 0)
    /\ Len(network_keys) = 1
    /\ HoldsNetworkKey(network_keys, MeshNetworkKey(1))

\* C6: load skip on corruption, application keys. A load into an empty pool adds
\* a key for a slot exactly when the record of the slot has the fixed record size.
C6_LoadSkipsTruncatedAppKey ==
    [][ \A fill \in StackResidue :
            (mesh_load_app_keys(fill) /\ transport_keys = << >>) =>
                \A i \in TransportKeySlots :
                    (\E j \in 1 .. Len(transport_keys') :
                         transport_keys'[j].internal_index = i)
                        <=> AppKeyRecordWellFormed(tlv, i)
      ]_vars

\* C7: delete_all. After mesh_delete_app_keys (mesh_delete_network_keys) no record
\* of its kind is left, a load into an empty pool adds no key, and the records of
\* the other kind are what they were.
C7_DeleteAllThenLoadEmpty ==
    [][ /\ mesh_delete_app_keys =>
              /\ \A i \in TransportKeySlots :
                     tlv'[mesh_transport_key_tag_for_internal_index(i)] = << >>
              /\ \A fill \in StackResidue :
                     mesh_load_app_keys_from(0, tlv', << >>, fill) = << >>
              /\ \A i \in NetworkKeySlots :
                     tlv'[mesh_network_key_tag_for_internal_index(i)]
                         = tlv[mesh_network_key_tag_for_internal_index(i)]
        /\ mesh_delete_network_keys =>
              /\ \A i \in NetworkKeySlots :
                     tlv'[mesh_network_key_tag_for_internal_index(i)] = << >>
              /\ \A fill \in StackResidue :
                     mesh_load_network_keys_from(0, tlv', << >>, fill) = << >>
              /\ \A i \in TransportKeySlots :
                     tlv'[mesh_transport_key_tag_for_internal_index(i)]
                         = tlv[mesh_transport_key_tag_for_internal_index(i)]
      ]_vars

\* C7 witness: the pool holds every network key, loaded before, no network key
\* record is left and the application key records are all still there
C7_Witness ==
    /\ Len(network_keys) = MAX_NR_MESH_NETWORK_KEYS
    /\ \A i \in NetworkKeySlots :
           /\ HoldsNetworkKey(network_keys, MeshNetworkKey(i))
           /\ tlv[mesh_network_key_tag_for_internal_index(i)] = << >>
    /\ \A i \in TransportKeySlots : AppKeyRecordWellFormed(tlv, i)

----------------------------------------------------------------------------
(* Properties of the node lifecycle *)

\* the step is the bridge handling a provisioning event
BridgeHandles(channel, packet) ==
    mesh_provisioning_message_handler("HCI_EVENT_PACKET", channel, packet, Len(packet))

\* the step is the HCI handler handling an event packet
HciHandles(packet) == hci_packet_handler("HCI_EVENT_PACKET", packet)

Persisted == provisioning_data_tlv # << >>

\* C8: the provisioned flag is a one-way latch. A provisioning-complete event
\* that the bridge has handled leaves the flag set and the provisioning record
\* persisted; no later event (stack state, disconnection, connection, further
\* provisioning events) clears the flag or the record, only a node reset does
\* (a restart loses the flag in memory, not the record); and every start-up from
\* the store with the record persisted sets the flag. Each conjunct is written
\* in contrapositive form: a step that leaves the flag or the record unset is
\* not a handled provisioning-complete event, and so on.
C8_ProvisionedLatch ==
    [][ /\ (~ fault' /\ ~ (provisioned' = 1 /\ Persisted')) =>
               \A channel \in ProvisioningChannels, packet \in ProvisioningPackets :
                   IsProvisioningComplete(packet) => ~ BridgeHandles(channel, packet)
        /\ (provisioned = 1 /\ provisioned' # 1) => (mesh_node_reset \/ PowerCycle)
        /\ (Persisted /\ ~ Persisted') => mesh_node_reset
        /\ (Persisted /\ provisioned' # 1) =>
               ~ HciHandles(<< "BTSTACK_EVENT_STATE", "HCI_STATE_WORKING" >>)
      ]_vars

\* a node provisioned in an earlier run (nothing is registered with the
\* provisioning collaborator in this run) has its flag set by the start-up
C8_Witness ==
    /\ provisioned = 1
    /\ Persisted
    /\ ~ provisioning_device_registered
    /\ tlv_impl # "NULL"

DisconnectionComplete == << "HCI_EVENT_DISCONNECTION_COMPLETE", "0" >>

\* C9 (as stated): on a disconnection an unprovisioned node starts advertising
\* as an unprovisioned device and starts no network-identity advertising; a
\* provisioned node starts network-identity advertising and no unprovisioned
\* device advertising; neither the flag nor the store changes.
C9_DisconnectAdvertising ==
    [][ (link_connected /\ HciHandles(DisconnectionComplete)) =>
            /\ provisioned = 0 =>
                   advertising' = advertising \cup { "advertising_unprovisioned_device" }
            /\ provisioned # 0 =>
                   advertising' = advertising \cup { "advertising_with_network_id" }
            /\ provisioned' = provisioned
            /\ tlv' = tlv
            /\ provisioning_data_tlv' = provisioning_data_tlv
            /\ network_keys' = network_keys
            /\ transport_keys' = transport_keys
      ]_vars

\* C9 (amended): as above, but a provisioned node starts network-identity
\* advertising only in a build with the proxy server; in a build without it a
\* disconnection of a provisioned node starts no advertising at all.
C9_DisconnectAdvertisingProxyServer ==
    [][ (link_connected /\ HciHandles(DisconnectionComplete)) =>
            /\ provisioned = 0 =>
                   advertising' = advertising \cup { "advertising_unprovisioned_device" }
            /\ (provisioned # 0 /\ build.ENABLE_MESH_PROXY_SERVER) =>
                   advertising' = advertising \cup { "advertising_with_network_id" }
            /\ (provisioned # 0 /\ ~ build.ENABLE_MESH_PROXY_SERVER) =>
                   advertising' = advertising
            /\ provisioned' = provisioned
            /\ tlv' = tlv
            /\ provisioning_data_tlv' = provisioning_data_tlv
            /\ network_keys' = network_keys
            /\ transport_keys' = transport_keys
      ]_vars

\* in a build without PB-GATT only a disconnection starts the unprovisioned
\* device advertising; the node has since been provisioned, and in a build
\* without the proxy server no network-identity advertising runs
C9_Witness ==
    /\ ~ build.ENABLE_MESH_PB_GATT
    /\ ~ build.ENABLE_MESH_PROXY_SERVER
    /\ "advertising_unprovisioned_device" \in advertising
    /\ provisioned = 1
    /\ "advertising_with_network_id" \notin advertising

\* C10: every event the bridge is given while a subscriber is registered is
\* forwarded to the subscriber exactly once, with the same packet type, channel,
\* payload and size, after the bridge's own state transition (the subscriber of
\* a provisioning-complete event finds the flag set); an event other than
\* provisioning-complete changes neither the flag nor the keys.
C10_BridgeForwards ==
    [][ \A channel \in ProvisioningChannels, packet \in ProvisioningPackets :
            ( /\ provisioning_device_packet_handler # "NULL"
              /\ BridgeHandles(channel, packet) )
            => /\ forwarded' =
                       << [ packet_type |-> "HCI_EVENT_PACKET", channel |-> channel,
                            packet |-> packet, size |-> Len(packet),
                            provisioned |-> provisioned' ] >>
               /\ IsProvisioningComplete(packet) => provisioned' = 1
               /\ ~ IsProvisioningComplete(packet) =>
                      /\ provisioned' = provisioned
                      /\ network_keys' = network_keys
                      /\ transport_keys' = transport_keys
                      /\ tlv' = tlv
      ]_vars

----------------------------------------------------------------------------
(* Pool exhaustion during load *)

\* a key list that has n entries of the pool in use
UsedNetworkKeys(n) == [j \in 1 .. n |-> btstack_memory_mesh_network_key_get]
UsedTransportKeys(n) == [j \in 1 .. n |-> btstack_memory_mesh_transport_key_get]

\* the slots whose record the loop of a load takes
LoadableNetworkKeySlots(store) ==
    { i \in NetworkKeySlots : mesh_load_network_key_accepts(
          get_tag_len(store, mesh_network_key_tag_for_internal_index(i))) }
LoadableAppKeySlots(store) ==
    { i \in TransportKeySlots : mesh_load_app_key_accepts(
          get_tag_len(store, mesh_transport_key_tag_for_internal_index(i))) }

Min(a, b) == IF a <= b THEN a ELSE b

\* the slot that is the j-th lowest of a set of slots
IsNthSlot(slots, s, j) == s \in slots /\ Cardinality({ t \in slots : t < s }) = j - 1

\* C11: a load into a pool with n entries in use keeps those entries, adds
\* min(free entries, loadable records) keys, and the keys it adds are those of
\* the lowest loadable slots in slot order (it stops at the slot at which the
\* pool is used up and loads nothing at or above it); a load step does not
\* modify the store and reports nothing.
C11_LoadStopsWhenPoolExhausted ==
    /\ [] \A fill \in StackResidue :
            /\ \A n \in 0 .. MAX_NR_MESH_NETWORK_KEYS :
                   LET keys == UsedNetworkKeys(n)
                       loaded == mesh_load_network_keys_from(0, tlv, keys, fill)
                       added == AddedKeys(keys, loaded)
                       loadable == LoadableNetworkKeySlots(tlv)
                   IN  /\ SubSeq(loaded, 1, n) = keys
                       /\ Len(added) = Min(MAX_NR_MESH_NETWORK_KEYS - n,
                                           Cardinality(loadable))
                       /\ \A j \in 1 .. Len(added) : \E s \in loadable :
                              /\ IsNthSlot(loadable, s, j)
                              /\ SameNetworkKeyFields(added[j], MeshNetworkKey(s))
            /\ \A n \in 0 .. MAX_NR_MESH_TRANSPORT_KEYS :
                   LET keys == UsedTransportKeys(n)
                       loaded == mesh_load_app_keys_from(0, tlv, keys, fill)
                       added == AddedKeys(keys, loaded)
                       loadable == LoadableAppKeySlots(tlv)
                   IN  /\ SubSeq(loaded, 1, n) = keys
                       /\ Len(added) = Min(MAX_NR_MESH_TRANSPORT_KEYS - n,
                                           Cardinality(loadable))
                       /\ \A j \in 1 .. Len(added) : \E s \in loadable :
                              /\ IsNthSlot(loadable, s, j)
                              /\ added[j].internal_index = s
                              /\ SameTransportKeyFields(added[j], MeshTransportKey(s))
    /\ [][ (\E fill \in StackResidue : mesh_load_network_keys(fill)) =>
               /\ tlv' = tlv
               /\ SubSeq(network_keys', 1, Len(network_keys)) = network_keys
               /\ Len(network_keys') - Len(network_keys) =
                      Min(MAX_NR_MESH_NETWORK_KEYS - Len(network_keys),
                          Cardinality(LoadableNetworkKeySlots(tlv)))
         ]_vars

\* the pool was used up during a load: it is full, every slot has a loadable
\* record, and the key of the highest slot was not loaded
C11_Witness ==
    /\ Len(network_keys) = MAX_NR_MESH_NETWORK_KEYS
    /\ LoadableNetworkKeySlots(tlv) = NetworkKeySlots
    /\ ~ HoldsNetworkKey(network_keys, MeshNetworkKey(MAX_NR_MESH_NETWORK_KEYS - 1))
    /\ \A i \in TransportKeySlots : AppKeyRecordWellFormed(tlv, i)

----------------------------------------------------------------------------
(* Store availability *)

StateWorking == << "BTSTACK_EVENT_STATE", "HCI_STATE_WORKING" >>
StateInitializing == << "BTSTACK_EVENT_STATE", "HCI_STATE_INITIALIZING" >>

----------------------------------------------------------------------------
(* C13: the order of the layers on provisioning-complete                     *)

ProvisioningComplete == << "HCI_EVENT_MESH_META", "3", "MESH_SUBEVENT_PB_PROV_COMPLETE" >>

\* C13: when the bridge handles a provisioning-complete event whose
\* provisioning data carry a network key, it persists the provisioning data,
\* then adds the primary key, then sets up the subnet, then starts the
\* secure-network beacon, then (proxy-server builds) initialises the proxy and
\* starts network-id advertising, then starts node-identity advertising, and
\* only then sets provisioned; after the step the key is in the pool, the
\* subnet exists, the beacon and the advertisements run and the record is
\* persisted.
C13_ProvisioningCompleteOrder ==
    [][ ( /\ BridgeHandles(0, ProvisioningComplete)
          /\ Len(network_keys') > Len(network_keys) )
        => /\ Precedes(bridge_calls', "mesh_node_store_provisioning_data",
                       "mesh_network_key_add")
           /\ Precedes(bridge_calls', "mesh_network_key_add",
                       "mesh_subnet_setup_for_netkey_index")
           /\ Precedes(bridge_calls', "mesh_subnet_setup_for_netkey_index",
                       "beacon_secure_network_start")
           /\ Precedes(bridge_calls', "beacon_secure_network_start",
                       "mesh_proxy_set_advertising_with_node_id")
           /\ Precedes(bridge_calls', "mesh_proxy_set_advertising_with_node_id",
                       "provisioned = 1")
           /\ IF build.ENABLE_MESH_PROXY_SERVER
              THEN /\ Precedes(bridge_calls', "beacon_secure_network_start",
                               "mesh_proxy_init")
                   /\ Precedes(bridge_calls', "mesh_proxy_init",
                               "mesh_proxy_start_advertising_with_network_id")
                   /\ Precedes(bridge_calls',
                               "mesh_proxy_start_advertising_with_network_id",
                               "mesh_proxy_set_advertising_with_node_id")
                   /\ "advertising_with_network_id" \in advertising'
              ELSE /\ Occurrences(bridge_calls', "mesh_proxy_init") = 0
                   /\ Occurrences(bridge_calls',
                                  "mesh_proxy_start_advertising_with_network_id") = 0
           /\ provisioned' = 1
           /\ network_keys'[Len(network_keys')].netkey_index \in subnets'
           /\ { "secure_network_beacon", "advertising_with_node_id" }
                  \subseteq advertising'
           /\ Persisted'
      ]_vars

C13_Witness ==
    /\ provisioned = 1
    /\ build.ENABLE_MESH_PROXY_SERVER
    /\ IndexOf(bridge_calls, "mesh_network_key_add") > 0
    /\ IndexOf(bridge_calls, "provisioned = 1") > IndexOf(bridge_calls, "mesh_proxy_init")
    /\ { "secure_network_beacon", "advertising_with_network_id",
         "advertising_with_node_id" } \subseteq advertising

----------------------------------------------------------------------------
(* C14: the order of bring-up                                                *)

\* calls, in this order and each made exactly once
RECURSIVE InOrder(_, _)
InOrder(calls, names) ==
    IF Len(names) < 2 THEN \A i \in DOMAIN names : Occurrences(calls, names[i]) = 1
    ELSE /\ Precedes(calls, names[1], names[2])
         /\ InOrder(calls, Tail(names))

\* C14: mesh_init performs its steps exactly once each and in the fixed order:
\* HCI event handler registered, advertising bearer, then the GATT bearer and
\* the unprovisioned-device beacon in the builds that have them (and not at all
\* in the others), provisioning collaborator, node, network layer, lower
\* transport, upper transport, access layer, and last the configuration server
\* model and the health server model; nothing else is called, and no other
\* step of the node changes what bring-up has done.
C14_BringUpOrder ==
    /\ [] ( init_calls # << >> =>
              /\ InOrder(init_calls,
                     << "hci_add_event_handler", "adv_bearer_init" >>
                     \o ( IF build.ENABLE_MESH_GATT_BEARER
                          THEN << "gatt_bearer_init" >> ELSE << >> )
                     \o ( IF build.ENABLE_MESH_ADV_BEARER
                          THEN << "beacon_init" >> ELSE << >> )
                     \o << "provisioning_device_init", "mesh_node_init",
                           "mesh_network_init", "mesh_lower_transport_init",
                           "mesh_upper_transport_init", "mesh_access_init",
                           "mesh_element_add_model(mesh_configuration_server_model)",
                           "mesh_element_add_model(mesh_health_server_model)" >>)
              /\ Len(init_calls) = 10 + ( IF build.ENABLE_MESH_GATT_BEARER THEN 1 ELSE 0 )
                                      + ( IF build.ENABLE_MESH_ADV_BEARER THEN 1 ELSE 0 )
              /\ build.ENABLE_MESH_GATT_BEARER
                     <=> Occurrences(init_calls, "gatt_bearer_init") = 1
              /\ build.ENABLE_MESH_ADV_BEARER
                     <=> Occurrences(init_calls, "beacon_init") = 1 )
    /\ [][ init_calls' # init_calls =>
              \/ mesh_init /\ init_calls = << >>
              \/ PowerCycle /\ init_calls' = << >> ]_vars

C14_Witness ==
    /\ Len(init_calls) = 11
    /\ ~ build.ENABLE_MESH_GATT_BEARER
    /\ IndexOf(init_calls, "beacon_init") = 3
    /\ IndexOf(init_calls, "mesh_upper_transport_init") = 8
    /\ hci_state = "HCI_STATE_WORKING"

----------------------------------------------------------------------------
(* C15: connection established                                               *)

LeConnectionComplete == << "HCI_EVENT_LE_META", "HCI_SUBEVENT_LE_CONNECTION_COMPLETE" >>
LeAdvertisingReport == << "HCI_EVENT_LE_META", "HCI_SUBEVENT_LE_ADVERTISING_REPORT" >>

\* C15: a step in which the link comes up (the handler processes an LE
\* connection-complete event), on an unprovisioned or a provisioned node, stops
\* the unprovisioned-device advertising of the proxy and changes nothing else:
\* the provisioned flag, the keys, the subnets, the node data, the store and
\* the persisted record are unchanged and every other advertisement keeps
\* running; a step handling an LE meta event with another subevent code
\* changes nothing at all.
C15_ConnectionEstablished ==
    [][ /\ ( ~ link_connected /\ link_connected' )
            => /\ advertising' = advertising \ { "advertising_unprovisioned_device" }
               /\ UNCHANGED << provisioned, network_keys, transport_keys, subnets,
                               tlv, provisioning_data_tlv, tlv_impl, node,
                               device_uuid, crypto_random_pending,
                               provisioning_device_packet_handler, fault >>
        /\ HciHandles(LeAdvertisingReport)
            => UNCHANGED << advertising, provisioned, network_keys, transport_keys,
                            subnets, tlv, provisioning_data_tlv, tlv_impl, node,
                            device_uuid, crypto_random_pending,
                            provisioning_device_packet_handler, fault >>
      ]_vars

\* the link came up on a node that advertised as an unprovisioned device: the
\* beacon started with the advertisement still runs, the advertisement does not
C15_Witness ==
    /\ link_connected
    /\ build.ENABLE_MESH_PB_GATT
    /\ provisioned = 0
    /\ "unprovisioned_device_beacon" \in advertising
    /\ "advertising_unprovisioned_device" \notin advertising

----------------------------------------------------------------------------
(* C16: bring-up of the device UUID                                          *)

\* the step is a start-up that finds no provisioning record, so that
\* mesh_access_setup_without_provisiong_data runs
StartUpUnprovisioned ==
    /\ hci_state # "HCI_STATE_WORKING"
    /\ hci_state' = "HCI_STATE_WORKING"
    /\ provisioning_data_tlv = << >>

\* the advertisements of an unprovisioned device this build has
UnprovisionedAdvertisements ==
    ( IF build.ENABLE_MESH_PB_ADV THEN { "unprovisioned_device_beacon" } ELSE {} )
    \cup ( IF build.ENABLE_MESH_PB_GATT THEN { "advertising_unprovisioned_device" }
           ELSE {} )

\* the step is the callback of the random generator
RandomDone == crypto_random_pending /\ ~ crypto_random_pending' /\ init_calls' # << >>

\* C16: when mesh_access_setup_without_provisiong_data runs without a device
\* UUID it requests a random generation and starts no advertisement and sets no
\* UUID in that step; while the generation is pending the UUID is unset and no
\* unprovisioned-device beacon runs; the callback sets the UUID to the random
\* value and starts the advertisements of an unprovisioned device, and the
\* beacon carries that UUID, never an unset one. When it runs with a device
\* UUID it requests no generation, leaves the UUID as it is and starts the
\* advertisements in the same step. A generation is requested by no other
\* step, and the UUID is set by no step but the callback.
C16_DeviceUuidBringUp ==
    /\ [] ( /\ crypto_random_pending
                => /\ device_uuid = << >>
                   /\ "unprovisioned_device_beacon" \notin advertising
            /\ "unprovisioned_device_beacon(NULL)" \notin advertising )
    /\ [][  /\ ( StartUpUnprovisioned /\ device_uuid = << >> )
                => /\ crypto_random_pending'
                   /\ device_uuid' = << >>
                   /\ advertising' = advertising
            /\ ( StartUpUnprovisioned /\ device_uuid # << >> )
                => /\ crypto_random_pending' = crypto_random_pending
                   /\ device_uuid' = device_uuid
                   /\ advertising' = advertising \cup UnprovisionedAdvertisements
            /\ RandomDone
                => /\ device_uuid' = << "random_device_uuid" >>
                   /\ advertising' = advertising \cup UnprovisionedAdvertisements
            /\ ( ~ crypto_random_pending /\ crypto_random_pending' )
                => ( StartUpUnprovisioned /\ device_uuid = << >> )
            /\ ( device_uuid' # device_uuid /\ init_calls' # << >> )
                => RandomDone
          ]_vars

C16_Witness ==
    /\ device_uuid = << "random_device_uuid" >>
    /\ ~ crypto_random_pending
    /\ provisioned = 0
    /\ UnprovisionedAdvertisements \subseteq advertising
    /\ "unprovisioned_device_beacon" \in advertising

----------------------------------------------------------------------------
(* C17: builds without a capability                                          *)

\* C17: in a build without PB-GATT no step of the running node starts or stops
\* the GATT unprovisioned-device advertisement, and in a build without the
\* proxy server no step starts network-id advertising or initialises the proxy.
C17_GracefulDegradation ==
    [][ /\ ( ~ build.ENABLE_MESH_PB_GATT /\ init_calls' # << >> )
            => ( "advertising_unprovisioned_device" \in advertising'
                    <=> "advertising_unprovisioned_device" \in advertising )
        /\ ( ~ build.ENABLE_MESH_PROXY_SERVER /\ init_calls' # << >> )
            => /\ "advertising_with_network_id" \notin advertising'
               /\ node'.proxy_address = node.proxy_address
      ]_vars

----------------------------------------------------------------------------
(* C18: the unprovisioned-device advertisement under interleaving            *)

\* C18: however the callback of the random generator interleaves with
\* connection, disconnection and provisioning-complete events, the
\* unprovisioned-device advertisement runs only while the node is unprovisioned
\* and no link is connected.
C18_UnprovisionedAdvertisingOnlyWhenIdle ==
    "advertising_unprovisioned_device" \in advertising
        => ( provisioned = 0 /\ ~ link_connected )

----------------------------------------------------------------------------
(* C19: provisioning-complete without a network key                          *)

\* C19: when the bridge handles a provisioning-complete event whose
\* provisioning data carry no network key, it reads no field of the absent
\* key: it does not fault, adds no key, sets up no subnet, starts no beacon,
\* makes no node-identity advertising call, and still sets provisioned and
\* forwards the event to a registered subscriber.
C19_ProvisioningCompleteWithoutKey ==
    [][ ( /\ BridgeHandles(0, ProvisioningComplete)
          /\ IndexOf(bridge_calls', "mesh_network_key_add") = 0 )
        => /\ ~ fault'
           /\ IndexOf(bridge_calls', "mesh_proxy_set_advertising_with_node_id") = 0
           /\ network_keys' = network_keys
           /\ subnets' = subnets
           /\ advertising' \ advertising \subseteq { "advertising_with_network_id" }
           /\ provisioned' = 1
           /\ provisioning_device_packet_handler # "NULL" => forwarded' # << >>
      ]_vars

----------------------------------------------------------------------------
(* C20: installation of the bridge                                           *)

\* C20: once mesh_init has run and the stack works, a provisioning-complete
\* event of the provisioning collaborator reaches the bridge and sets
\* provisioned, whether or not a subscriber was ever registered.
C20_BridgeInstalledByInit ==
    ( init_calls # << >> /\ hci_state = "HCI_STATE_WORKING" /\ ~ fault )
        => ENABLED ( ProvisioningEvent /\ provisioned' = 1 )

====
